---- MODULE Spec2Model ----
(***************************************************************************)
(* CoffeeNow (coffee_now.py): pairing of opted-in employees.              *)
(*                                                                         *)
(* An email address is modelled as the sequence of character codes of its *)
(* distinguishing local part (the common "@domain" suffix is dropped):    *)
(* <<97>> is "a@...", <<65>> is "A@...".  Python's str ordering, used by   *)
(* sorted(), is the lexicographic order on these code sequences, and      *)
(* str.lower() maps the codes 65..90 to 97..122.                           *)
(***************************************************************************)
EXTENDS Integers, Sequences, FiniteSets

VARIABLES
    available_emails,   \* Matcher.available_emails: sorted list of consenting emails
    user_departments,   \* Matcher.user_departments: dict lower-cased email -> department id
    history_rows,       \* data rows of the historical-matches sheet: <<first, second>>
    users,              \* Matcher.users: list of User objects
    available,          \* local available_emails of Matcher.matches (a set)
    already_matched,    \* local already_matched of Matcher.matches (a list)
    _matches,           \* local _matches of Matcher.matches (list of pairs)
    idx,                \* position of the for loop of Matcher.matches in users
    matches,            \* cached value of Matcher.matches: <<>> until computed, then <<list>>
    csvfile,            \* the output file of export_matches
    round,              \* number of the run (the output of run 1 may feed run 2)
    pc                  \* position of the run

vars == <<available_emails, user_departments, history_rows, users, available,
          already_matched, _matches, idx, matches, csvfile, round, pc>>

\* ---------------------------------------------------------------- bounds
MaxRows == 4        \* consenting rows of the requests file
MaxHist == 1        \* data rows of the historical-matches sheet

Emails == {<<65>>, <<97>>, <<98>>, <<99>>, <<100>>}   \* "A", "a", "b", "c", "d"
Depts == {1, 2}                                       \* department ids of the roster

\* Python's None as a department id
None == 0

\* ---------------------------------------------------------------- helpers
Range(s) == {s[k] : k \in DOMAIN s}

SeqsUpTo(S, n) == UNION {[1..k -> S] : k \in 0..n}

\* str.lower()
Lower(s) == [k \in DOMAIN s |-> IF s[k] \in 65..90 THEN s[k] + 32 ELSE s[k]]

\* Python's s < t on strings
RECURSIVE StrLess(_, _)
StrLess(s, t) ==
    IF t = <<>> THEN FALSE
    ELSE IF s = <<>> THEN TRUE
    ELSE IF Head(s) # Head(t) THEN Head(s) < Head(t)
    ELSE StrLess(Tail(s), Tail(t))

\* insertion of x into the ascending list s, after the elements equal to it
RECURSIVE Insert(_, _)
Insert(x, s) ==
    IF s = <<>> THEN <<x>>
    ELSE IF StrLess(x, Head(s)) THEN <<x>> \o s
    ELSE <<Head(s)>> \o Insert(x, Tail(s))

\* sorted(list)
RECURSIVE sorted(_)
sorted(s) == IF s = <<>> THEN <<>> ELSE Insert(s[Len(s)], sorted(SubSeq(s, 1, Len(s) - 1)))

\* iteration over a Python set: the elements in some order
RECURSIVE SetToSeq(_)
SetToSeq(S) ==
    IF S = {} THEN <<>>
    ELSE LET x == CHOOSE y \in S : TRUE IN <<x>> \o SetToSeq(S \ {x})

\* dict.get(k, default)
DictGet(d, k, default) == IF k \in DOMAIN d THEN d[k] ELSE default

\* ---------------------------------------------------------------- cached properties
\* _historical_matches.setdefault(k1, []); _historical_matches[k1].append(k2)
HistAdd(d, row) ==
    LET email_key1 == Lower(row[1])
        email_key2 == Lower(row[2])
    IN [k \in DOMAIN d \cup {email_key1} |->
            IF k = email_key1 THEN Append(DictGet(d, k, <<>>), email_key2) ELSE d[k]]

RECURSIVE HistOf(_)
HistOf(rows) ==
    IF rows = <<>> THEN <<>>
    ELSE HistAdd(HistOf(SubSeq(rows, 1, Len(rows) - 1)), rows[Len(rows)])

historical_matches == HistOf(history_rows)

\* User(email, department_id, historical_matches)
User(email) ==
    [email |-> email,
     department_id |-> DictGet(user_departments, email, None),
     historical_matches |-> DictGet(historical_matches, email, <<>>)]

BuildUsers == [k \in 1..Len(available_emails) |-> User(available_emails[k])]

\* ---------------------------------------------------------------- User.get_possible_matches
\* variant without the department test
get_possible_matches_nodept(user, available_set, departments) ==
    LET previous_matches == <<user.email>> \o user.historical_matches
    IN sorted(SetToSeq(available_set \ Range(previous_matches)))

\* variant whose previous_matches is [self.email] alone
get_possible_matches_nohist(user, available_set, departments) ==
    LET kept == {possible_match \in available_set \ {user.email} :
                    DictGet(departments, possible_match, None) # user.department_id}
    IN sorted(SetToSeq(kept))

\* variant that sorts the candidates in descending order
get_possible_matches_descending(user, available_set, departments) ==
    LET previous_matches == <<user.email>> \o user.historical_matches
        kept == {possible_match \in available_set \ Range(previous_matches) :
                    DictGet(departments, possible_match, None) # user.department_id}
        order == sorted(SetToSeq(kept))
    IN [k \in 1..Len(order) |-> order[Len(order) + 1 - k]]

get_possible_matches(user, available_set, departments) ==
    LET previous_matches == <<user.email>> \o user.historical_matches
        kept == {possible_match \in available_set \ Range(previous_matches) :
                    DictGet(departments, possible_match, None) # user.department_id}
    IN sorted(SetToSeq(kept))

\* ---------------------------------------------------------------- inputs
\* the sorted lists available_emails can be, for the requests files within the bound
AvailableInputs == {sorted(r) : r \in SeqsUpTo(Emails, MaxRows)}

LowerOf(s) == {Lower(e) : e \in Range(s)}

Init ==
    /\ available_emails \in AvailableInputs
    /\ user_departments \in UNION {[K -> Depts] : K \in SUBSET LowerOf(available_emails)}
    /\ history_rows \in SeqsUpTo(Range(available_emails) \X Range(available_emails), MaxHist)
    /\ users = <<>>
    /\ available = {}
    /\ already_matched = <<>>
    /\ _matches = <<>>
    /\ idx = 0
    /\ matches = <<>>
    /\ csvfile = [created |-> FALSE, header |-> FALSE, rows |-> <<>>]
    /\ round = 1
    /\ pc = "start"

inputs == <<available_emails, user_departments, history_rows, round>>

\* ---------------------------------------------------------------- export_matches, matches
\* with open(csv_file_name, 'w') as csvfile:
OpenFile ==
    /\ pc = "start"
    /\ csvfile' = [created |-> TRUE, header |-> FALSE, rows |-> <<>>]
    /\ pc' = "opened"
    /\ UNCHANGED <<inputs, users, available, already_matched, _matches, idx, matches>>

\* first evaluation of self.matches: the locals, and self.users for the loop
BeginMatches ==
    /\ pc = "opened"
    /\ _matches' = <<>>
    /\ available' = Range(available_emails)
    /\ already_matched' = <<>>
    /\ users' = BuildUsers
    /\ idx' = 1
    /\ pc' = "loop"
    /\ UNCHANGED <<inputs, matches, csvfile>>

\* if user.email in set(already_matched): continue
Skip ==
    /\ pc = "loop"
    /\ idx <= Len(users)
    /\ users[idx].email \in Range(already_matched)
    /\ idx' = idx + 1
    /\ UNCHANGED <<inputs, users, available, already_matched, _matches, matches, csvfile, pc>>

\* variant that removes only the match from the remaining pool
Match_keeps_user ==
    /\ pc = "loop"
    /\ idx <= Len(users)
    /\ users[idx].email \notin Range(already_matched)
    /\ LET user == users[idx]
           user_matches == get_possible_matches(user, available, user_departments)
       IN /\ user_matches # <<>>
          /\ LET last_match == user_matches[1]
             IN /\ already_matched' = Append(already_matched, last_match)
                /\ available' = available \ {last_match}
                /\ _matches' = Append(_matches, <<user.email, last_match>>)
    /\ idx' = idx + 1
    /\ UNCHANGED <<inputs, users, matches, csvfile, pc>>

\* one iteration that records a pair
Match ==
    /\ pc = "loop"
    /\ idx <= Len(users)
    /\ users[idx].email \notin Range(already_matched)
    /\ LET user == users[idx]
           user_matches == get_possible_matches(user, available, user_departments)
       IN /\ user_matches # <<>>
          /\ LET last_match == user_matches[1]
             IN /\ already_matched' = Append(already_matched, last_match)
                /\ available' = available \ {last_match, user.email}
                /\ _matches' = Append(_matches, <<user.email, last_match>>)
    /\ idx' = idx + 1
    /\ UNCHANGED <<inputs, users, matches, csvfile, pc>>

\* variant that leaves a participant without candidate unmatched and goes on
Exhausted_continues ==
    /\ pc = "loop"
    /\ idx <= Len(users)
    /\ users[idx].email \notin Range(already_matched)
    /\ get_possible_matches(users[idx], available, user_departments) = <<>>
    /\ idx' = idx + 1
    /\ UNCHANGED <<inputs, users, available, already_matched, _matches, matches, csvfile, pc>>

\* user_matches[0] raises IndexError on an empty list: the run aborts
Exhausted ==
    /\ pc = "loop"
    /\ idx <= Len(users)
    /\ users[idx].email \notin Range(already_matched)
    /\ get_possible_matches(users[idx], available, user_departments) = <<>>
    /\ pc' = "failed"
    /\ UNCHANGED <<inputs, users, available, already_matched, _matches, idx, matches, csvfile>>

\* return _matches
Return ==
    /\ pc = "loop"
    /\ idx > Len(users)
    /\ matches' = <<_matches>>
    /\ pc' = "computed"
    /\ UNCHANGED <<inputs, users, available, already_matched, _matches, idx, csvfile>>

\* writer.writeheader(); writer.writerow(match) for every match
WriteRows ==
    /\ pc = "computed"
    /\ matches[1] # <<>>
    /\ csvfile' = [created |-> TRUE, header |-> TRUE, rows |-> matches[1]]
    /\ pc' = "done"
    /\ UNCHANGED <<inputs, users, available, already_matched, _matches, idx, matches>>

\* self.matches[0].keys() raises IndexError when there is no match
NoMatches ==
    /\ pc = "computed"
    /\ matches[1] = <<>>
    /\ pc' = "export_failed"
    /\ UNCHANGED <<inputs, users, available, already_matched, _matches, idx, matches, csvfile>>

Next ==
    \/ OpenFile
    \/ BeginMatches
    \/ Skip
    \/ Match
    \/ Exhausted
    \/ Return
    \/ WriteRows
    \/ NoMatches

Spec == Init /\ [][Next]_vars

\* ---------------------------------------------------------------- two runs in a row
\* Run 1 starts from an empty history sheet.
Init2 ==
    /\ available_emails \in AvailableInputs
    /\ user_departments \in UNION {[K -> Depts] : K \in SUBSET LowerOf(available_emails)}
    /\ history_rows = <<>>
    /\ users = <<>>
    /\ available = {}
    /\ already_matched = <<>>
    /\ _matches = <<>>
    /\ idx = 0
    /\ matches = <<>>
    /\ csvfile = [created |-> FALSE, header |-> FALSE, rows |-> <<>>]
    /\ round = 1
    /\ pc = "start"

\* The rows written by run 1 become the data rows of the history sheet of run 2
\* ('Email Address' is its first email column, 'Meet your Match' its second);
\* run 2 is a new process with its own requests file and the same roster.
NextRound ==
    /\ pc = "done"
    /\ round = 1
    /\ history_rows' = csvfile.rows
    /\ available_emails' \in AvailableInputs
    /\ users' = <<>>
    /\ available' = {}
    /\ already_matched' = <<>>
    /\ _matches' = <<>>
    /\ idx' = 0
    /\ matches' = <<>>
    /\ csvfile' = [created |-> FALSE, header |-> FALSE, rows |-> <<>>]
    /\ round' = 2
    /\ pc' = "start"
    /\ UNCHANGED user_departments

Next2 ==
    \/ Next
    \/ NextRound

Spec2 == Init2 /\ [][Next2]_vars

\* ---------------------------------------------------------------- vocabulary of the properties
\* the emails "a", "b", "c", "d" of the scenarios
ea == <<97>>
eb == <<98>>
ec == <<99>>
ed == <<100>>

Distinct(s) == Cardinality(Range(s)) = Len(s)

PairSet(p) == {p[1], p[2]}

\* the candidates the description of the Candidate Resolver allows for a participant
Eligible(u) ==
    {e \in available :
        /\ e # u.email
        /\ e \notin Range(u.historical_matches)
        /\ DictGet(user_departments, e, None) # u.department_id}

\* the loop stands at a participant that has not been matched yet
AtUnmatched ==
    /\ pc = "loop"
    /\ idx <= Len(users)
    /\ users[idx].email \notin Range(already_matched)

\* ---------------------------------------------------------------- C1
\* C1: the output file is created only after the pairing list has been
\* computed: whenever the file exists, Matcher.matches has returned, and a
\* run that failed with exhausted candidates has left no file.
C1_FileOnlyAfterMatches ==
    /\ csvfile.created => matches # <<>>
    /\ pc = "failed" => ~csvfile.created

\* ---------------------------------------------------------------- C2
NoConstraints ==
    /\ Len(available_emails) >= 1
    /\ Distinct(available_emails)
    /\ \A e \in Range(available_emails) :
          /\ User(e).department_id # None
          /\ User(e).historical_matches = <<>>
    /\ \A e, f \in Range(available_emails) :
          e # f => User(e).department_id # User(f).department_id

\* C2: for a pool of N >= 1 distinct emails with pairwise different known
\* departments and empty histories, the matching does not fail and returns
\* exactly N \div 2 pairs.
C2_FloorHalfPairs ==
    NoConstraints =>
        /\ pc # "failed"
        /\ matches # <<>> => Len(matches[1]) = Len(available_emails) \div 2

\* ---------------------------------------------------------------- C3
\* C3: at every point of the loop no email occurs in more than one
\* accumulated pair, in either position.
C3_EmailInOnePair ==
    \A j, k \in DOMAIN _matches :
        j # k => PairSet(_matches[j]) \cap PairSet(_matches[k]) = {}

\* ---------------------------------------------------------------- C4
AllUnknown ==
    /\ available_emails # <<>>
    /\ \A e \in Range(available_emails) : DictGet(user_departments, e, None) = None

Round2Distinct ==
    /\ round = 2
    /\ Distinct(available_emails)
    /\ \A e, f \in Range(available_emails) :
          e # f =>
             /\ User(e).department_id # User(f).department_id
             /\ DictGet(user_departments, Lower(e), None)
                   # DictGet(user_departments, Lower(f), None)

\* C6: with the pairs of run 1 as the history of run 2, no two emails
\* paired in run 1 are paired in run 2, in either order.
C6_NoRepeat ==
    Round2Distinct =>
        \A k \in DOMAIN _matches : \A r \in DOMAIN history_rows :
            PairSet(_matches[k]) # PairSet(history_rows[r])

\* ---------------------------------------------------------------- C7
\* C7: when the loop stands at an unmatched participant without eligible
\* candidate the run fails there: nothing is returned or recorded, the
\* loop does not advance, and a failed run takes no further step and never
\* has a returned list or written rows.
C7_ExhaustedIsFatal ==
    /\ [][AtUnmatched /\ Eligible(users[idx]) = {} =>
             /\ pc' = "failed"
             /\ matches' = <<>>
             /\ idx' = idx
             /\ _matches' = _matches]_vars
    /\ [][pc # "failed"]_vars
    /\ [](pc = "failed" => matches = <<>> /\ ~csvfile.header /\ csvfile.rows = <<>>)

\* pool [a, b, c] with departments a: 1, b: 1, c: 2 and no history: the run
\* failed at b, after the pair (a, c) and before c was processed
C7_Witness ==
    /\ pc = "failed"
    /\ available_emails = <<ea, eb, ec>>
    /\ user_departments = [k \in {ea, eb, ec} |-> IF k = ec THEN 2 ELSE 1]
    /\ history_rows = <<>>
    /\ _matches = << <<ea, ec>> >>
    /\ idx = 2

\* ---------------------------------------------------------------- C8
\* C8: every User carries the department id and the history recorded
\* under the lower-cased spelling of its email.
C8_LowerCasedIdentity ==
    \A k \in DOMAIN users :
        /\ users[k].department_id
              = DictGet(user_departments, Lower(users[k].email), None)
        /\ users[k].historical_matches
              = DictGet(historical_matches, Lower(users[k].email), <<>>)

\* ---------------------------------------------------------------- C9
UsersAscending ==
    \A j, k \in DOMAIN users : j < k => ~StrLess(users[k].email, users[j].email)

GreedyStep ==
    pc = "loop" /\ idx' = idx + 1 =>
        LET u == users[idx] IN
        IF u.email \in Range(already_matched)
        THEN /\ _matches' = _matches
             /\ available' = available
             /\ already_matched' = already_matched
        ELSE \E m \in Eligible(u) :
                /\ \A e \in Eligible(u) : e = m \/ StrLess(m, e)
                /\ _matches' = Append(_matches, <<u.email, m>>)
                /\ available' = available \ {u.email, m}
                /\ Range(already_matched') = Range(already_matched) \cup {m}

C10_RequesterSmaller ==
    Distinct(available_emails) =>
        \A k \in DOMAIN _matches : StrLess(_matches[k][1], _matches[k][2])

\* a run over distinct emails that wrote two pairs
C10_Witness ==
    /\ pc = "done"
    /\ Distinct(available_emails)
    /\ Len(csvfile.rows) = 2

====
